---- MODULE Spec2Model ----
(***************************************************************************)
(* Model of pyhmmer.daemon.Client (src/pyhmmer/daemon.pyx): the client of  *)
(* the HMMER daemon protocol.  One Client object, its socket, the byte     *)
(* stream coming back from the server, and the position of the single      *)
(* thread executing Client._client between two socket operations.          *)
(*                                                                         *)
(* Text sent on the socket is a TLA+ string; bytes received are naturals   *)
(* in 0..255.  The statistics block and the hit records are decoded by     *)
(* libhmmer, whose layout is not part of the client: they are modelled     *)
(* with one cell per field ([Z_setby, nhits, hit_offsets...] and           *)
(* [size, body...]).                                                       *)
(***************************************************************************)
EXTENDS Integers, Sequences, FiniteSets, TLC

VARIABLES
    sock,           \* self.socket: "Disconnected", "Connected" or "Closed"
    pc,             \* position of the running call, "Idle" between calls
    call,           \* arguments of the current (or last) call of _client
    outbound,       \* chunks written to the socket, not yet read by the server
    callSends,      \* number of send operations of the current (or last) call
    pending,        \* bytes written by the server, not yet in the socket buffer
    rxbuf,          \* bytes in the socket's receive buffer
    link,           \* the connection: "none", "up", "eof" (the server closed
                    \* its end) or "reset" (the connection failed)
    buffer,         \* _recvall: buffer = bytearray(message_size)
    received,       \* _recvall: received
    message_size,   \* _recvall: message_size
    search_status,  \* deserialized status header
    outcome,        \* how the last call ended
    ncalls,         \* number of calls started
    nrequests,      \* requests completely sent (terminators sent)
    nresponses,     \* responses written by the server
    rv,             \* record of the current (or last) run of _recvall
    nclose,         \* calls of self.socket.close() that have returned
    block,          \* the `with` statement the client is used in, if any
    inflight        \* a receive entered before close() is still blocked

vars == << sock, pc, call, outbound, callSends, pending, rxbuf, link, buffer, received, message_size, search_status, outcome,
           ncalls, nrequests, nresponses, rv, nclose, block, inflight >>

-----------------------------------------------------------------------------
(* Bounds of the model. *)

MaxCalls   == 2     \* calls of search_*/scan_* in one behaviour
MaxResponses == 2   \* responses the server writes in one behaviour
MaxHits    == 2     \* hit records in a payload
MaxHitSize == 2     \* cells of one hit record
MaxMsg     == 2     \* bytes of a server error message
MaxCloses  == 2     \* calls of close in one behaviour

-----------------------------------------------------------------------------
(* Protocol constants. *)

eslOK      == 0
eslEFORMAT == 7
eslEINVAL  == 11

(* The status header is a status code followed by a message size in       *)
(* network order; the model gives the code one byte and the size two.      *)
StatusBytes == 1
SizeBytes   == 2

HMMD_SEARCH_STATUS_SERIAL_SIZE == StatusBytes + SizeBytes

p7_SEARCH_SEQS == "p7_SEARCH_SEQS"
p7_SCAN_MODELS == "p7_SCAN_MODELS"

-----------------------------------------------------------------------------
(* Python values. *)

None == [isNone |-> TRUE, list |-> << >>]
List(l) == [isNone |-> FALSE, list |-> l]

Int_(n) == [isint |-> TRUE, v |-> n]
NotInt  == [isint |-> FALSE, v |-> 0]

Min(a, b) == IF a < b THEN a ELSE b

Zeros(n) == [i \in 1..n |-> 0]

Digit(d) ==
    CASE d = 0 -> "0" [] d = 1 -> "1" [] d = 2 -> "2" [] d = 3 -> "3"
      [] d = 4 -> "4" [] d = 5 -> "5" [] d = 6 -> "6" [] d = 7 -> "7"
      [] d = 8 -> "8" [] d = 9 -> "9"

RECURSIVE Str(_)
(* str.format / f-string rendering of an int *)
Str(n) ==
    IF n < 0 THEN "-" \o Str(-n)
    ELSE IF n < 10 THEN Digit(n)
    ELSE Str(n \div 10) \o Digit(n % 10)

RECURSIVE Join(_, _)
(* sep.join(parts) *)
Join(sep, parts) ==
    IF parts = << >> THEN ""
    ELSE IF Len(parts) = 1 THEN parts[1]
    ELSE parts[1] \o sep \o Join(sep, Tail(parts))

-----------------------------------------------------------------------------
(* Client._client, lines 194-202: option string and check of `ranges`. *)

(* options = "".join(pli.arguments()) *)
OptionString(arguments) == Join("", arguments)

(* CheckRanges with the test for an empty list and the type test lost *)
CheckRanges_unchecked(ranges) ==
    IF ranges.isNone THEN "TypeError"
    ELSE IF \E i \in 1..Len(ranges.list) : Len(ranges.list[i]) # 2
         THEN "ValueError"
    ELSE "ok"

(* The if/elif chain of lines 197-202.  The first test guards against None, *)
(* the second iterates over `ranges` unguarded, which raises TypeError      *)
(* ('NoneType' object is not iterable) when ranges is None.                 *)
CheckRanges(ranges) ==
    IF ~ranges.isNone /\ Len(ranges.list) < 1 THEN "ValueError"
    ELSE IF ranges.isNone THEN "TypeError"
    ELSE IF \E i \in 1..Len(ranges.list) : Len(ranges.list[i]) # 2
         THEN "ValueError"
    ELSE IF ~(\A i \in 1..Len(ranges.list) :
                 ranges.list[i][1].isint /\ ranges.list[i][2].isint)
         THEN "TypeError"
    ELSE "ok"

-----------------------------------------------------------------------------
(* Client._client, lines 211-219: the request line. *)

FormatItem(x) == IF x.isint THEN Str(x.v) ELSE "x"

\* one element of `ranges` rendered by "{}..{}".format
FormatRange(r) == FormatItem(r[1]) \o ".." \o FormatItem(r[2])

(* RequestLine with the ranges joined by the wrong separator *)
RequestLine_semicolon(mode, db, ranges, options) ==
    IF mode = p7_SEARCH_SEQS
    THEN LET opts == IF ~ranges.isNone
                     THEN "--seqdb_ranges "
                          \o Join(";", [i \in 1..Len(ranges.list) |->
                                           FormatRange(ranges.list[i])])
                          \o " " \o options
                     ELSE options
         IN  "@--seqdb " \o Str(db) \o " " \o opts \o "\n"
    ELSE "@--hmmdb " \o Str(db) \o " " \o options \o "\n"

(* RequestLine with the two directives exchanged *)
RequestLine_exchanged(mode, db, ranges, options) ==
    IF mode = p7_SEARCH_SEQS
    THEN LET opts == IF ~ranges.isNone
                     THEN "--seqdb_ranges "
                          \o Join(",", [i \in 1..Len(ranges.list) |->
                                           FormatRange(ranges.list[i])])
                          \o " " \o options
                     ELSE options
         IN  "@--hmmdb " \o Str(db) \o " " \o opts \o "\n"
    ELSE "@--seqdb " \o Str(db) \o " " \o options \o "\n"

RequestLine(mode, db, ranges, options) ==
    IF mode = p7_SEARCH_SEQS
    THEN LET opts == IF ~ranges.isNone
                     THEN "--seqdb_ranges "
                          \o Join(",", [i \in 1..Len(ranges.list) |->
                                           FormatRange(ranges.list[i])])
                          \o " " \o options
                     ELSE options
         IN  "@--seqdb " \o Str(db) \o " " \o opts \o "\n"
    ELSE "@--hmmdb " \o Str(db) \o " " \o options \o "\n"

-----------------------------------------------------------------------------
(* Wire codec of libhmmer, as used by _client. *)

RECURSIVE BigEndian(_, _)
(* n as w bytes in network order (server side of the status header) *)
BigEndian(n, w) ==
    IF w = 0 THEN << >>
    ELSE Append(BigEndian(n \div 256, w - 1), n % 256)

RECURSIVE FromBigEndian(_)
FromBigEndian(bytes) ==
    IF bytes = << >> THEN 0
    ELSE FromBigEndian(SubSeq(bytes, 1, Len(bytes) - 1)) * 256
         + bytes[Len(bytes)]

KnownStatus == 0..28

(* hmmd_search_status_Deserialize: status and msg_size of the header; a   *)
(* status code outside the known enumeration is rejected.                  *)
hmmd_search_status_Deserialize(response) ==
    LET code == FromBigEndian(SubSeq(response, 1, StatusBytes))
        size == FromBigEndian(SubSeq(response, StatusBytes + 1,
                                     HMMD_SEARCH_STATUS_SERIAL_SIZE))
    IN  [ret      |-> IF code \in KnownStatus THEN eslOK ELSE eslEINVAL,
         status   |-> code,
         msg_size |-> size]

(* error.decode("utf-8", "replace") on single-byte text: an ASCII byte is  *)
(* its own code point, a byte that cannot start a sequence becomes U+FFFD. *)
DecodeReplace(bytes) ==
    [i \in 1..Len(bytes) |-> IF bytes[i] < 128 THEN bytes[i] ELSE 65533]

-----------------------------------------------------------------------------
(* How a call ends. *)

NoOutcome ==
    [kind |-> "none", code |-> 0, message |-> << >>, where |-> "",
     N |-> 0, hits |-> << >>, warnings |-> << >>,
     is_sorted_by_seqidx |-> FALSE, is_sorted_by_sortkey |-> FALSE,
     cursor |-> 0, garbage |-> FALSE]

Raised(kind, where) == [NoOutcome EXCEPT !.kind = kind, !.where = where]

UnexpectedError(status, where) ==
    [NoOutcome EXCEPT !.kind = "UnexpectedError", !.code = status,
                      !.where = where]

ServerError(status, message) ==
    [NoOutcome EXCEPT !.kind = "ServerError", !.code = status,
                      !.message = message]

(* the process dies on an invalid memory access *)
Segfault == [NoOutcome EXCEPT !.kind = "Segfault"]

(* the exceptions a call can end with *)
ErrorKinds == {"ValueError", "TypeError", "OSError", "EOFError",
               "UnexpectedError", "ServerError"}

-----------------------------------------------------------------------------
(* Client._client, lines 240-302: decoding of the payload.                 *)
(*                                                                         *)
(* The deserializers receive the buffer's address and an offset, never its *)
(* length (lines 245-249 and 295-299): a read at or after Len(buf) is a    *)
(* read outside the bytearray.  Such a read is reported with oob = TRUE    *)
(* and its effect is a choice among the outcomes of HeapReadOutcomes.      *)

ValidSetby == {0, 1, 2}

p7_hmmd_search_stats_Deserialize(buf, off) ==
    IF off + 2 > Len(buf)
    THEN [oob |-> TRUE, ret |-> eslOK, off |-> off, nhits |-> 0,
          nhitsKnown |-> FALSE, hit_offsets |-> << >>]
    ELSE LET setby == buf[off + 1]
             n     == buf[off + 2]
         IN  IF setby \notin ValidSetby
             THEN [oob |-> FALSE, ret |-> eslEINVAL, off |-> off, nhits |-> 0,
                   nhitsKnown |-> TRUE, hit_offsets |-> << >>]
             ELSE IF off + 2 + n > Len(buf)
             THEN [oob |-> TRUE, ret |-> eslOK, off |-> off, nhits |-> n,
                   nhitsKnown |-> TRUE, hit_offsets |-> << >>]
             ELSE [oob |-> FALSE, ret |-> eslOK, off |-> off + 2 + n,
                   nhits |-> n, nhitsKnown |-> TRUE,
                   hit_offsets |-> SubSeq(buf, off + 3, off + 2 + n)]

p7_hit_Deserialize(buf, off) ==
    IF off + 1 > Len(buf)
    THEN [oob |-> TRUE, ret |-> eslOK, off |-> off, hit |-> << >>]
    ELSE LET size == buf[off + 1]
         IN  IF size = 0
             THEN [oob |-> FALSE, ret |-> eslEFORMAT, off |-> off,
                   hit |-> << >>]
             ELSE IF off + size > Len(buf)
             THEN [oob |-> TRUE, ret |-> eslOK, off |-> off, hit |-> << >>]
             ELSE [oob |-> FALSE, ret |-> eslOK, off |-> off + size,
                   hit |-> SubSeq(buf, off + 1, off + size)]

(* TopHits with the assignment of line 271 lost *)
TopHits_noN(nhits, hits, warnings, cursor, garbage) ==
    [NoOutcome EXCEPT !.kind = "TopHits", !.N = 0, !.hits = hits,
                      !.warnings = warnings,
                      !.is_sorted_by_seqidx = FALSE,
                      !.is_sorted_by_sortkey = TRUE,
                      !.cursor = cursor, !.garbage = garbage]

(* TopHits with the two sort flags exchanged *)
TopHits_seqidx(nhits, hits, warnings, cursor, garbage) ==
    [NoOutcome EXCEPT !.kind = "TopHits", !.N = nhits, !.hits = hits,
                      !.warnings = warnings,
                      !.is_sorted_by_seqidx = TRUE,
                      !.is_sorted_by_sortkey = FALSE,
                      !.cursor = cursor, !.garbage = garbage]

(* lines 267-271 and 307: the TopHits handed back *)
TopHits(nhits, hits, warnings, cursor, garbage) ==
    [NoOutcome EXCEPT !.kind = "TopHits", !.N = nhits, !.hits = hits,
                      !.warnings = warnings,
                      !.is_sorted_by_seqidx = FALSE,
                      !.is_sorted_by_sortkey = TRUE,
                      !.cursor = cursor, !.garbage = garbage]

(* What a read outside the buffer can lead to: the deserializer rejects    *)
(* what it finds, the process dies, or the loop runs to its end over       *)
(* whatever lies behind the buffer.                                        *)
HeapReadOutcomes(buf, where, nhitsSet, hits, warnings) ==
    {UnexpectedError(eslEFORMAT, where), Segfault}
    \cup {TopHits(n, hits \o [j \in 1..(n - Len(hits)) |-> << >>], warnings,
                  Len(buf) + 1, TRUE) : n \in nhitsSet}

RECURSIVE DeserializeHits(_, _, _, _, _, _, _)

(* DeserializeHits leaving the loop on a failed record instead of raising *)
DeserializeHits_break(buf, buf_offset, i, stats, hits_start, hits, warnings) ==
    IF i >= stats.nhits
    THEN {TopHits(stats.nhits, hits, warnings, buf_offset, FALSE)}
    ELSE LET warned == IF buf_offset - hits_start # stats.hit_offsets[i + 1]
                       THEN Append(warnings, i)
                       ELSE warnings
             r == p7_hit_Deserialize(buf, buf_offset)
         IN  IF r.oob
             THEN HeapReadOutcomes(buf, "p7_hit_Deserialize", {stats.nhits},
                                   hits, warned)
             ELSE IF r.ret # eslOK
             THEN {TopHits(stats.nhits, hits, warned, buf_offset, FALSE)}
             ELSE DeserializeHits(buf, r.off, i + 1, stats, hits_start,
                                  Append(hits, r.hit), warned)

(* DeserializeHits reading a record whose offset mismatches at its        *)
(* declared offset instead of at the cursor                                *)
DeserializeHits_jump(buf, buf_offset, i, stats, hits_start, hits, warnings) ==
    IF i >= stats.nhits
    THEN {TopHits(stats.nhits, hits, warnings, buf_offset, FALSE)}
    ELSE LET mismatch == buf_offset - hits_start # stats.hit_offsets[i + 1]
             warned == IF mismatch THEN Append(warnings, i) ELSE warnings
             r == p7_hit_Deserialize(buf,
                      IF mismatch THEN hits_start + stats.hit_offsets[i + 1]
                      ELSE buf_offset)
         IN  IF r.oob
             THEN HeapReadOutcomes(buf, "p7_hit_Deserialize", {stats.nhits},
                                   hits, warned)
             ELSE IF r.ret # eslOK
             THEN {UnexpectedError(r.ret, "p7_hit_Deserialize")}
             ELSE DeserializeHits(buf, r.off, i + 1, stats, hits_start,
                                  Append(hits, r.hit), warned)

(* the loop of lines 284-302, from iteration i (0-based) *)
DeserializeHits(buf, buf_offset, i, stats, hits_start, hits, warnings) ==
    IF i >= stats.nhits
    THEN {TopHits(stats.nhits, hits, warnings, buf_offset, FALSE)}
    ELSE LET warned == IF buf_offset - hits_start # stats.hit_offsets[i + 1]
                       THEN Append(warnings, i)
                       ELSE warnings
             r == p7_hit_Deserialize(buf, buf_offset)
         IN  IF r.oob
             THEN HeapReadOutcomes(buf, "p7_hit_Deserialize", {stats.nhits},
                                   hits, warned)
             ELSE IF r.ret # eslOK
             THEN {UnexpectedError(r.ret, "p7_hit_Deserialize")}
             ELSE DeserializeHits(buf, r.off, i + 1, stats, hits_start,
                                  Append(hits, r.hit), warned)

(* lines 240-307 on the received payload `response` *)
DecodePayload(response) ==
    LET stats == p7_hmmd_search_stats_Deserialize(response, 0)
    IN  IF stats.oob
        THEN HeapReadOutcomes(response,
                              "p7_hmmd_search_search_stats_Deserialize",
                              IF stats.nhitsKnown THEN {stats.nhits}
                              ELSE {0, 1},
                              << >>, << >>)
        ELSE IF stats.ret # eslOK
        THEN {UnexpectedError(stats.ret,
                              "p7_hmmd_search_search_stats_Deserialize")}
        ELSE DeserializeHits(response, stats.off, 0, stats, stats.off,
                             << >>, << >>)

-----------------------------------------------------------------------------
(* Inputs of the calls and responses of the server. *)

Databases == {1, 3}

QueryBodies == {">q\nMKV\n"}

RangesInputs ==
    { None,
      List(<< >>),
      List(<< <<Int_(10), Int_(20)>> >>),
      List(<< <<Int_(10), Int_(20)>>, <<Int_(30), Int_(40)>> >>),
      List(<< <<Int_(-5), Int_(107)>> >>),
      List(<< <<Int_(10)>> >>),
      List(<< <<Int_(10), Int_(20)>>, <<Int_(30), Int_(40), Int_(50)>> >>),
      List(<< <<Int_(10), NotInt>> >>),
      List(<< <<Int_(10), Int_(20)>>, <<NotInt, Int_(40)>> >>) }

(* values of pli.arguments() *)
ArgumentLists == { << >>, <<"--max", "--nobias">> }

StatusHeader(status, msg_size) ==
    BigEndian(status, StatusBytes) \o BigEndian(msg_size, SizeBytes)

RECURSIVE SeqsUpTo(_, _)
(* sequences over S of length at most n *)
SeqsUpTo(S, n) ==
    IF n = 0 THEN { << >> }
    ELSE LET shorter == SeqsUpTo(S, n - 1)
         IN  shorter \cup { Append(q, x) : q \in shorter, x \in S }

ServerErrorCodes == {eslEFORMAT, 99}

(* an error text of n bytes, every second byte invalid as UTF-8 *)
ErrorText(n) == [i \in 1..n |-> IF i % 2 = 0 THEN 255 ELSE 101]

ErrorResponses ==
    { StatusHeader(code, n) \o ErrorText(n) :
        code \in ServerErrorCodes, n \in 0..MaxMsg }

(* one hit record of the given size; size 0 is a malformed record *)
HitRecord(size) == IF size = 0 THEN <<0>> ELSE <<size>> \o [j \in 1..(size - 1) |-> 200]

RECURSIVE HitRecords(_)
HitRecords(sizes) ==
    IF sizes = << >> THEN << >>
    ELSE HitRecord(Head(sizes)) \o HitRecords(Tail(sizes))

RECURSIVE TrueOffsets(_, _, _)
(* offsets of d records, the first ones of the given sizes, from `at` *)
TrueOffsets(sizes, d, at) ==
    IF d = 0 THEN << >>
    ELSE <<at>> \o TrueOffsets(IF sizes = << >> THEN << >> ELSE Tail(sizes),
                               d - 1,
                               at + (IF sizes = << >> THEN 1
                                     ELSE Len(HitRecord(Head(sizes)))))

StatsBlock(setby, nhits, offsets) == <<setby, nhits>> \o offsets

(* Payloads a server can send.  Well formed: nhits records of sizes       *)
(* 1..MaxHitSize, with the true offset table or one of zeros.  Others: the *)
(* last record malformed, the last record missing, an unknown Z_setby, and *)
(* payloads too short to hold a statistics block.                          *)
RecordSizes == SeqsUpTo(1..MaxHitSize, MaxHits)

OffsetTables(sz) == { TrueOffsets(sz, Len(sz), 0), Zeros(Len(sz)) }

WellFormedPayloads ==
    UNION { { StatsBlock(0, Len(sz), offs) \o HitRecords(sz) :
                offs \in OffsetTables(sz) } : sz \in RecordSizes }

MalformedPayloads ==
    { StatsBlock(0, Len(sz), TrueOffsets(sz, Len(sz), 0))
      \o HitRecords(SubSeq(sz, 1, Len(sz) - 1)) \o last :
        sz \in RecordSizes \ { << >> }, last \in { <<0>>, << >> } }

OkPayloads ==
    WellFormedPayloads \cup MalformedPayloads
    \cup { StatsBlock(255, 0, << >>), << >>, <<0>> }

OkResponses == { StatusHeader(eslOK, Len(p)) \o p : p \in OkPayloads }

Responses == OkResponses \cup ErrorResponses

-----------------------------------------------------------------------------
(* Initial state: Client.__init__, lines 115-117. *)

NoCall ==
    [entry |-> "", query |-> "", db |-> 0, ranges |-> None,
     arguments |-> << >>, mode |-> ""]

(* n, taken, nrecv: the running _recvall, its argument, the bytes it took  *)
(* from the stream and its number of recv_into calls; ret_*: the same for  *)
(* the last _recvall that returned, with the buffer it returned.           *)
NoRecv == [n |-> 0, taken |-> << >>, nrecv |-> 0, returned |-> 0,
           ret_n |-> 0, ret_buf |-> << >>, ret_taken |-> << >>,
           ret_nrecv |-> 0]

NoStatus == [ret |-> eslOK, status |-> eslOK, msg_size |-> 0]

(* at: "outside" (no `with` statement entered), "inside" its body, "left"; *)
(* calls0: the number of calls made before the body; exc: the exception    *)
(* handed to __exit__; out: the exception that leaves the statement.        *)
NoBlock == [at |-> "outside", calls0 |-> 0, exc |-> "none", out |-> "none"]

Init ==
    /\ sock = "Disconnected"
    /\ pc = "Idle"
    /\ call = NoCall
    /\ outbound = << >>
    /\ callSends = 0
    /\ pending = << >>
    /\ rxbuf = << >>
    /\ link = "none"
    /\ buffer = << >>
    /\ received = 0
    /\ message_size = 0
    /\ search_status = NoStatus
    /\ outcome = NoOutcome
    /\ ncalls = 0
    /\ nrequests = 0
    /\ nresponses = 0
    /\ rv = NoRecv
    /\ nclose = 0
    /\ block = NoBlock
    /\ inflight = FALSE

netVars  == << pending, rxbuf, link >>
recvVars == << buffer, received, message_size, search_status, rv >>
sendVars == << outbound, callSends, nrequests >>
scopeVars == << nclose, block >>

-----------------------------------------------------------------------------
(* Client.connect and Client.close, lines 311-325. *)

(* socket_connect opening a new socket when the old one is closed *)
socket_connect_reopen ==
    /\ sock \in {"Disconnected", "Closed"}
    /\ sock' = "Connected"
    /\ link' = "up"

(* self.socket.connect(...): succeeds or raises on a fresh socket, raises  *)
(* on a connected or closed one.                                           *)
socket_connect ==
    /\ sock = "Disconnected"
    /\ sock' = "Connected"
    /\ link' = "up"

connect ==
    /\ pc = "Idle"
    /\ socket_connect
    /\ UNCHANGED << pc, call, sendVars, pending, rxbuf, recvVars, outcome,
                    ncalls, nresponses, scopeVars, inflight >>

RecvPhases == {"RecvStatus", "RecvError", "RecvPayload"}

(* the thread running the call is inside recv_into or recv and waits for   *)
(* bytes to arrive                                                         *)
Blocked ==
    /\ pc \in RecvPhases
    /\ sock = "Connected"
    /\ link = "up"
    /\ rxbuf = << >>
    /\ pc = "RecvError" => search_status.msg_size > 0

(* socket_close leaving a socket that is not connected as it is *)
socket_close_connected ==
    /\ nclose < MaxCloses
    /\ nclose' = nclose + 1
    /\ sock' = IF sock = "Connected" THEN "Closed" ELSE sock
    /\ IF inflight
       THEN UNCHANGED << pending, rxbuf, outbound, link, inflight >>
       ELSE \/ /\ pending' = << >>
               /\ rxbuf' = << >>
               /\ outbound' = << >>
               /\ link' = "none"
               /\ inflight' = FALSE
            \/ /\ Blocked
               /\ inflight' = TRUE
               /\ UNCHANGED << pending, rxbuf, outbound, link >>

(* self.socket.close(): never raises, whatever state the socket is in; the *)
(* descriptor is released and unread bytes are dropped.  close() neither   *)
(* shuts the connection down nor wakes a thread blocked in a receive on    *)
(* the descriptor: that receive either fails at once or, where the system  *)
(* call keeps the connection open until it returns, stays blocked and      *)
(* completes with the bytes that arrive later.                             *)
socket_close ==
    /\ nclose < MaxCloses
    /\ nclose' = nclose + 1
    /\ sock' = "Closed"
    /\ IF inflight
       THEN UNCHANGED << pending, rxbuf, outbound, link, inflight >>
       ELSE \/ /\ pending' = << >>
               /\ rxbuf' = << >>
               /\ outbound' = << >>
               /\ link' = "none"
               /\ inflight' = FALSE
            \/ /\ Blocked
               /\ inflight' = TRUE
               /\ UNCHANGED << pending, rxbuf, outbound, link >>

(* Client.close, called by any thread *)
close ==
    /\ pc # "Dead"
    /\ socket_close
    /\ UNCHANGED << pc, call, callSends, nrequests, recvVars, outcome, ncalls,
                    nresponses, block >>

-----------------------------------------------------------------------------
(* Client.__enter__ and Client.__exit__, lines 119-124, as called by a     *)
(* `with` statement.                                                       *)

(* __enter__: self.connect(); return self.  The body is entered when       *)
(* connect has not raised.                                                 *)
__enter__ ==
    /\ pc = "Idle"
    /\ block.at = "outside"
    /\ socket_connect
    /\ block' = [NoBlock EXCEPT !.at = "inside", !.calls0 = ncalls]
    /\ UNCHANGED << pc, call, sendVars, pending, rxbuf, recvVars, outcome,
                    ncalls, nresponses, nclose, inflight >>

(* ExitValue returning True when it is handed an exception *)
ExitValue_swallow(exc) == exc # "none"

(* the value __exit__ returns: None, there is no return statement *)
ExitValue(exc) == FALSE

(* The body is left, normally or by the exception of the call of the body  *)
(* that just ended; __exit__ calls self.close(), and the `with` statement  *)
(* raises the exception again unless __exit__ returned a true value.       *)
__exit__ ==
    /\ pc = "Idle"
    /\ block.at = "inside"
    /\ \E exc \in {"none"} \cup
                   (IF ncalls > block.calls0 /\ outcome.kind \in ErrorKinds
                    THEN {outcome.kind} ELSE {}) :
          block' = [block EXCEPT !.at = "left", !.exc = exc,
                                 !.out = IF ExitValue(exc) THEN "none"
                                         ELSE exc]
    /\ socket_close
    /\ UNCHANGED << pc, call, callSends, nrequests, recvVars, outcome, ncalls,
                    nresponses >>

-----------------------------------------------------------------------------
(* The entry points, lines 327-439, and the head of _client, 194-207. *)

EndCall(o) ==
    /\ outcome' = o
    /\ pc' = IF o.kind = "Segfault" THEN "Dead" ELSE "Idle"

_client(entry, query, db, ranges, arguments, mode) ==
    /\ pc = "Idle"
    /\ ncalls < MaxCalls
    /\ ncalls' = ncalls + 1
    /\ call' = [entry |-> entry, query |-> query, db |-> db,
                ranges |-> ranges, arguments |-> arguments, mode |-> mode]
    /\ callSends' = 0
    /\ rv' = NoRecv
    /\ LET check == CheckRanges(ranges)
       IN  IF check # "ok"
           THEN EndCall(Raised(check, "ranges"))
           ELSE /\ outcome' = NoOutcome
                /\ pc' = "SendLine"
    /\ search_status' = NoStatus
    /\ UNCHANGED << sock, outbound, nrequests, netVars, buffer, received,
                    message_size, nresponses, scopeVars, inflight >>

search_seq ==
    \E query \in QueryBodies, db \in Databases, ranges \in RangesInputs,
       arguments \in ArgumentLists :
        _client("search_seq", query, db, ranges, arguments, p7_SEARCH_SEQS)

search_msa ==
    \E query \in QueryBodies, db \in Databases, ranges \in RangesInputs,
       arguments \in ArgumentLists :
        _client("search_msa", query, db, ranges, arguments, p7_SEARCH_SEQS)

search_hmm ==
    \E query \in QueryBodies, db \in Databases, ranges \in RangesInputs,
       arguments \in ArgumentLists :
        _client("search_hmm", query, db, ranges, arguments, p7_SEARCH_SEQS)

scan_seq ==
    \E query \in QueryBodies, db \in Databases, arguments \in ArgumentLists :
        _client("scan_seq", query, db, None, arguments, p7_SCAN_MODELS)

-----------------------------------------------------------------------------
(* Client._client, lines 209-221: the request is written to the socket.    *)

peerClosed == link = "eof"

(* the connection serves the socket operation of the running call: the    *)
(* socket is connected (or the operation entered it before close()), and   *)
(* the connection has not failed                                           *)
Usable == (sock = "Connected" \/ inflight) /\ link \in {"up", "eof"}

(* a socket operation raises OSError: socket closed, not connected, reset *)
SocketError ==
    /\ pc \in {"SendLine", "SendQuery", "SendTerminator", "RecvStatus",
               "RecvError", "RecvPayload"}
    /\ ~Usable
    /\ EndCall(Raised("OSError", pc))
    /\ UNCHANGED << sock, call, sendVars, netVars, recvVars, ncalls,
                    nresponses, scopeVars, inflight >>

(* sendall writing the chunk a second time, as a retry would *)
sendall_twice(chunk) ==
    /\ Usable
    /\ outbound' = outbound \o <<chunk, chunk>>
    /\ callSends' = callSends + 2

(* self.socket.sendall(chunk) *)
sendall(chunk) ==
    /\ Usable
    /\ outbound' = Append(outbound, chunk)
    /\ callSends' = callSends + 1

(* lines 211-219 *)
SendLine ==
    /\ pc = "SendLine"
    /\ sendall(RequestLine(call.mode, call.db, call.ranges,
                           OptionString(call.arguments)))
    /\ pc' = "SendQuery"
    /\ UNCHANGED << sock, call, nrequests, netVars, recvVars, outcome,
                    ncalls, nresponses, scopeVars, inflight >>

(* line 220: query.write(self.socket.makefile("wb")) *)
SendQuery ==
    /\ pc = "SendQuery"
    /\ sendall(call.query)
    /\ pc' = "SendTerminator"
    /\ UNCHANGED << sock, call, nrequests, netVars, recvVars, outcome,
                    ncalls, nresponses, scopeVars, inflight >>

(* entry of _recvall, lines 147-150 *)
BeginRecvall(size) ==
    /\ buffer' = Zeros(size)
    /\ received' = 0
    /\ message_size' = size
    /\ rv' = [rv EXCEPT !.n = size, !.taken = << >>, !.nrecv = 0]

(* lines 221-224: the terminator, then _recvall of the status header.     *)
(* query, db, ranges and options are not read after line 221; of the      *)
(* arguments only `mode` is kept.                                          *)
SendTerminator ==
    /\ pc = "SendTerminator"
    /\ sendall("//")
    /\ nrequests' = nrequests + 1
    /\ call' = [NoCall EXCEPT !.mode = call.mode]
    /\ pc' = "RecvStatus"
    /\ BeginRecvall(HMMD_SEARCH_STATUS_SERIAL_SIZE)
    /\ UNCHANGED << sock, netVars, search_status, outcome, ncalls,
                    nresponses, scopeVars, inflight >>

-----------------------------------------------------------------------------
(* The server and the network. *)

(* the server reads a complete request and writes its response *)
ServerRespond ==
    /\ Usable
    /\ ~peerClosed
    /\ outbound # << >>
    /\ outbound[Len(outbound)] = "//"
    /\ nresponses < MaxResponses
    /\ outbound' = << >>
    /\ \E r \in Responses : pending' = pending \o r
    /\ nresponses' = nresponses + 1
    /\ UNCHANGED << sock, pc, call, callSends, nrequests, rxbuf, link,
                    recvVars, outcome, ncalls, scopeVars, inflight >>

(* The network delivers the next k bytes to the client's socket buffer.    *)
(* Only a receive looks at the socket buffer, and it finds the same bytes  *)
(* whether they arrived before or while it waits: deliveries are taken     *)
(* while the client is in a receive.                                       *)
Deliver ==
    /\ Usable
    /\ pc \in {"RecvStatus", "RecvError", "RecvPayload"}
    /\ \E k \in 1..Len(pending) :
        /\ rxbuf' = rxbuf \o SubSeq(pending, 1, k)
        /\ pending' = SubSeq(pending, k + 1, Len(pending))
    /\ UNCHANGED << sock, pc, call, sendVars, link, recvVars, outcome,
                    ncalls, nresponses, scopeVars, inflight >>

(* the server closes the connection; what it wrote and the network has not *)
(* delivered yet is lost, so a response is cut after any delivered byte    *)
PeerClose ==
    /\ Usable
    /\ ~peerClosed
    /\ pending' = << >>
    /\ link' = "eof"
    /\ outbound' = << >>
    /\ UNCHANGED << sock, pc, call, callSends, nrequests, rxbuf, recvVars,
                    outcome, ncalls, nresponses, scopeVars, inflight >>

(* the connection is reset; a blocked receive fails *)
NetReset ==
    /\ Usable
    /\ link' = "reset"
    /\ pending' = << >>
    /\ rxbuf' = << >>
    /\ outbound' = << >>
    /\ inflight' = FALSE
    /\ UNCHANGED << sock, pc, call, callSends, nrequests, recvVars, outcome,
                    ncalls, nresponses, scopeVars >>

AtEOF == rxbuf = << >> /\ pending = << >> /\ peerClosed

-----------------------------------------------------------------------------
(* Client._recvall, lines 141-157, and the rest of _client, 224-307.       *)

(* The socket buffer after a receive that left `rest` in it.  A receive    *)
(* that was still blocked when close() released the descriptor was the     *)
(* last user of the connection: with its return the connection is gone.    *)
AfterRecv(rest) ==
    /\ inflight' = FALSE
    /\ IF inflight
       THEN /\ rxbuf' = << >>
            /\ pending' = << >>
            /\ outbound' = << >>
            /\ link' = "none"
       ELSE /\ rxbuf' = rest
            /\ UNCHANGED << pending, outbound, link >>

(* recv_into taking everything that has arrived, whatever the view holds *)
recv_into_whole(avail, view_len) == Len(avail)

(* self.socket.recv_into(view): number of bytes written into the view *)
recv_into(avail, view_len) == Min(Len(avail), view_len)

(* WriteView with the view never advanced *)
WriteView_start(buf, view_start, data) ==
    [i \in 1..Len(buf) |-> IF i <= Len(data) THEN data[i] ELSE buf[i]]

(* the bytes land in view = buffer[received:] *)
WriteView(buf, view_start, data) ==
    [i \in 1..Len(buf) |->
        IF view_start < i /\ i <= view_start + Len(data)
        THEN data[i - view_start] ELSE buf[i]]

(* self.socket.recv(bufsize): one read of at most bufsize bytes *)
socket_recv(avail, bufsize) == SubSeq(avail, 1, Min(Len(avail), bufsize))

Return(r, buf) ==
    [r EXCEPT !.returned = @ + 1, !.ret_n = r.n, !.ret_buf = buf,
              !.ret_taken = r.taken, !.ret_nrecv = r.nrecv]

(* the locals of _recvall and _client are gone when the call has ended *)
DropLocals ==
    /\ buffer' = << >>
    /\ received' = 0
    /\ message_size' = 0

(* lines 240-307 once the payload is in `response` *)
AfterPayload(response, r) ==
    /\ \E o \in DecodePayload(response) : EndCall(o)
    /\ DropLocals
    /\ rv' = Return(r, response)
    /\ UNCHANGED search_status

(* AfterStatus with the test of the deserializer's return value lost *)
AfterStatus_unchecked(response, r) ==
    LET st == hmmd_search_status_Deserialize(response)
    IN  /\ search_status' = st
        /\ IF st.status # eslOK
           THEN /\ pc' = "RecvError"
                /\ outcome' = outcome
                /\ buffer' = response
                /\ received' = message_size
                /\ message_size' = message_size
                /\ rv' = Return(r, response)
           ELSE IF st.msg_size = 0
           THEN /\ \E o \in DecodePayload(<< >>) : EndCall(o)
                /\ DropLocals
                /\ rv' = Return([Return(r, response) EXCEPT
                                    !.n = 0, !.taken = << >>, !.nrecv = 0],
                                << >>)
           ELSE /\ pc' = "RecvPayload"
                /\ outcome' = outcome
                /\ buffer' = Zeros(st.msg_size)
                /\ received' = 0
                /\ message_size' = st.msg_size
                /\ rv' = [Return(r, response) EXCEPT
                             !.n = st.msg_size, !.taken = << >>, !.nrecv = 0]

(* lines 225-239 once the status header is in `response` *)
AfterStatus(response, r) ==
    LET st == hmmd_search_status_Deserialize(response)
    IN  /\ search_status' = st
        /\ IF st.ret # eslOK
           THEN /\ EndCall(UnexpectedError(st.ret,
                                           "hmmd_search_status_Deserialize"))
                /\ DropLocals
                /\ rv' = Return(r, response)
           ELSE IF st.status # eslOK
           THEN /\ pc' = "RecvError"
                /\ outcome' = outcome
                /\ buffer' = response
                /\ received' = message_size
                /\ message_size' = message_size
                /\ rv' = Return(r, response)
           ELSE IF st.msg_size = 0
           THEN \* _recvall(0) returns bytearray(0) without receiving
                /\ \E o \in DecodePayload(<< >>) : EndCall(o)
                /\ DropLocals
                /\ rv' = Return([Return(r, response) EXCEPT
                                    !.n = 0, !.taken = << >>, !.nrecv = 0],
                                << >>)
           ELSE /\ pc' = "RecvPayload"
                /\ outcome' = outcome
                /\ buffer' = Zeros(st.msg_size)
                /\ received' = 0
                /\ message_size' = st.msg_size
                /\ rv' = [Return(r, response) EXCEPT
                             !.n = st.msg_size, !.taken = << >>, !.nrecv = 0]

(* one iteration of the loop of lines 151-156 in which bytes arrive *)
Recvall_Step ==
    /\ pc \in {"RecvStatus", "RecvPayload"}
    /\ Usable
    /\ rxbuf # << >>
    /\ received < message_size
    /\ LET recv_size == recv_into(rxbuf, message_size - received)
           data      == SubSeq(rxbuf, 1, recv_size)
           filled    == WriteView(buffer, received, data)
           r         == [rv EXCEPT !.taken = @ \o data, !.nrecv = @ + 1]
       IN  /\ AfterRecv(SubSeq(rxbuf, recv_size + 1, Len(rxbuf)))
           /\ IF received + recv_size < message_size
              THEN /\ buffer' = filled
                   /\ received' = received + recv_size
                   /\ rv' = r
                   /\ UNCHANGED << pc, outcome, message_size, search_status >>
              ELSE IF pc = "RecvStatus"
              THEN AfterStatus(filled, r)
              ELSE AfterPayload(filled, r)
    /\ UNCHANGED << sock, call, callSends, nrequests, ncalls, nresponses,
                    scopeVars >>

(* Recvall_EOF leaving the loop and returning the buffer as it is *)
Recvall_EOF_break ==
    /\ pc \in {"RecvStatus", "RecvPayload"}
    /\ Usable
    /\ AtEOF
    /\ received < message_size
    /\ IF pc = "RecvStatus"
       THEN AfterStatus(buffer, [rv EXCEPT !.nrecv = @ + 1])
       ELSE AfterPayload(buffer, [rv EXCEPT !.nrecv = @ + 1])
    /\ AfterRecv(rxbuf)
    /\ UNCHANGED << sock, call, callSends, nrequests, ncalls, nresponses,
                    scopeVars >>

(* lines 153-154: recv_into returns 0, the peer has closed *)
Recvall_EOF ==
    /\ pc \in {"RecvStatus", "RecvPayload"}
    /\ Usable
    /\ AtEOF
    /\ received < message_size
    /\ EndCall(Raised("EOFError", pc))
    /\ DropLocals
    /\ rv' = [rv EXCEPT !.nrecv = @ + 1]
    /\ AfterRecv(rxbuf)
    /\ UNCHANGED << sock, call, callSends, nrequests, search_status, ncalls,
                    nresponses, scopeVars >>

(* lines 234-236: error = self.socket.recv(msg_size); raise ServerError *)
RecvErrorMessage ==
    /\ pc = "RecvError"
    /\ Usable
    /\ search_status.msg_size = 0 \/ rxbuf # << >> \/ AtEOF
    /\ LET error == socket_recv(rxbuf, search_status.msg_size)
       IN  /\ AfterRecv(SubSeq(rxbuf, Len(error) + 1, Len(rxbuf)))
           /\ EndCall(ServerError(search_status.status, DecodeReplace(error)))
    /\ DropLocals
    /\ UNCHANGED << sock, call, callSends, nrequests, search_status, rv,
                    ncalls, nresponses, scopeVars >>

-----------------------------------------------------------------------------

Next ==
    \/ connect
    \/ close
    \/ __enter__
    \/ __exit__
    \/ search_seq
    \/ search_msa
    \/ search_hmm
    \/ scan_seq
    \/ SocketError
    \/ SendLine
    \/ SendQuery
    \/ SendTerminator
    \/ ServerRespond
    \/ Deliver
    \/ PeerClose
    \/ NetReset
    \/ Recvall_Step
    \/ Recvall_EOF
    \/ RecvErrorMessage

Spec == Init /\ [][Next]_vars

TypeOK ==
    /\ sock \in {"Disconnected", "Connected", "Closed"}
    /\ pc \in {"Idle", "SendLine", "SendQuery", "SendTerminator",
               "RecvStatus", "RecvError", "RecvPayload", "Dead"}
    /\ received <= message_size
    /\ Len(buffer) = message_size
    /\ nclose \in 0..MaxCloses
    /\ block.at \in {"outside", "inside", "left"}
    /\ inflight \in BOOLEAN
    /\ inflight => pc \in RecvPhases /\ sock = "Closed"

-----------------------------------------------------------------------------
(* Properties. *)

ValidationErrors == {"ValueError", "TypeError"}

(* a step that starts a call *)
CallStarts == ncalls' = ncalls + 1

(* `ranges` is a list that is empty, or has an element that is not a pair, *)
(* or has a bound that is not an int                                       *)
InvalidRanges(ranges) ==
    /\ ~ranges.isNone
    /\ \/ ranges.list = << >>
       \/ \E i \in 1..Len(ranges.list) :
            \/ Len(ranges.list[i]) # 2
            \/ \E j \in 1..Len(ranges.list[i]) : ~ranges.list[i][j].isint

(* C1: a search call with an invalid `ranges` (empty list, an element that *)
(* is not a pair, a bound that is not an int) ends at once with a          *)
(* validation error: it performs no send operation, and socket, transport  *)
(* and counters are what they were before the call.                        *)
C1_InvalidRangesRejected ==
    [][ (CallStarts /\ call'.mode = p7_SEARCH_SEQS
                    /\ InvalidRanges(call'.ranges))
        => /\ outcome'.kind \in ValidationErrors
           /\ pc' = "Idle"
           /\ callSends' = 0
           /\ UNCHANGED << sock, link, outbound, pending, rxbuf, nrequests,
                           nresponses >> ]_vars

(* C1 witness: a search on a connected session was rejected for a bound    *)
(* that is not an int in its second range                                  *)
C1_Witness ==
    /\ sock = "Connected"
    /\ pc = "Idle"
    /\ call.entry = "search_seq"
    /\ call.ranges = List(<< <<Int_(10), Int_(20)>>, <<NotInt, Int_(40)>> >>)
    /\ outcome.kind = "TypeError"
    /\ callSends = 0

(* C2: a call without `ranges` (None: the default of the search entry      *)
(* points, and what scan_seq always passes) is not rejected by the check   *)
(* of `ranges`.                                                            *)
C2_RangesOptional ==
    (pc = "Idle" /\ call.entry # "" /\ call.ranges.isNone)
        => outcome.kind \notin ValidationErrors

(* the rendering "a1..b1,...,ak..bk" of a list of integer ranges *)
RangesClause(list) ==
    Join(",", [i \in 1..Len(list) |->
                  Str(list[i][1].v) \o ".." \o Str(list[i][2].v)])

(* the request line of the running call has just been sent, for a search   *)
(* with ranges and an empty option string                                  *)
LineSentWithRanges ==
    /\ pc = "SendQuery"
    /\ outbound # << >>
    /\ call.mode = p7_SEARCH_SEQS
    /\ ~call.ranges.isNone
    /\ call.arguments = << >>

(* C3 as stated: with an empty option string the request line of a search  *)
(* with ranges is "@--seqdb <db> --seqdb_ranges a1..b1,...,ak..bk" and a    *)
(* newline, nothing else.                                                  *)
C3_LineAsStated ==
    LineSentWithRanges
        => outbound[Len(outbound)] =
             "@--seqdb " \o Str(call.db) \o " --seqdb_ranges "
             \o RangesClause(call.ranges.list) \o "\n"

(* C3 amended: with an empty option string the request line of a search    *)
(* with ranges is "@--seqdb <db> --seqdb_ranges a1..b1,...,ak..bk", one     *)
(* space (the separator before the empty option string) and a newline.     *)
C3_LineWithTrailingSpace ==
    LineSentWithRanges
        => outbound[Len(outbound)] =
             "@--seqdb " \o Str(call.db) \o " --seqdb_ranges "
             \o RangesClause(call.ranges.list) \o " \n"

(* C3 witness: db = 3, ranges = [(10, 20), (30, 40)], no options *)
C3_Witness ==
    /\ LineSentWithRanges
    /\ call.db = 3
    /\ call.ranges = List(<< <<Int_(10), Int_(20)>>, <<Int_(30), Int_(40)>> >>)
    /\ outbound = << "@--seqdb 3 --seqdb_ranges 10..20,30..40 \n" >>

(* C4: the ServerError of an error status header that announces L message  *)
(* bytes carries all L of them, however the transport fragments them (the  *)
(* server has not closed: link is up).                                     *)
C4_WholeErrorMessage ==
    (outcome.kind = "ServerError" /\ link = "up")
        => Len(outcome.message) = search_status.msg_size

(* C5: after a ServerError the session is idle and connected and no byte   *)
(* of the error response is left unread on the transport.                  *)
C5_ErrorResponseConsumed ==
    (outcome.kind = "ServerError" /\ link = "up")
        => /\ pc = "Idle"
           /\ sock = "Connected"
           /\ pending = << >>
           /\ rxbuf = << >>

(* C6: the buffer _recvall returns has exactly message_size bytes and is   *)
(* the concatenation, in order, of the fragments its receives took from    *)
(* the stream.                                                             *)
C6_RecvallConcatenation ==
    rv.returned > 0
        => /\ Len(rv.ret_buf) = rv.ret_n
           /\ rv.ret_buf = rv.ret_taken

(* C6 witness: a buffer of at least three bytes returned after three       *)
(* receives                                                                *)
C6_Witness ==
    /\ rv.returned > 0
    /\ rv.ret_n >= 3
    /\ rv.ret_nrecv >= 3
    /\ rv.ret_buf = rv.ret_taken

(* C7: when the peer has closed and fewer than message_size bytes have     *)
(* arrived (none included), the receive of _recvall ends the call with     *)
(* EOFError and _recvall does not return; a buffer that is returned holds  *)
(* message_size received bytes.                                            *)
C7_ShortReadIsEOF ==
    [][ /\ (pc \in {"RecvStatus", "RecvPayload"} /\ Usable /\ AtEOF
            /\ rv' # rv)
          => /\ outcome'.kind = "EOFError"
             /\ pc' = "Idle"
             /\ rv'.returned = rv.returned
        /\ rv'.returned > rv.returned
          => Len(rv'.ret_taken) = rv'.ret_n ]_vars

(* C7 witness: EOFError after some but not all bytes of a message *)
C7_Witness ==
    /\ outcome.kind = "EOFError"
    /\ Len(rv.taken) >= 1
    /\ Len(rv.taken) < rv.n

(* the three chunks of the request of the running call, in order *)
RequestChunks ==
    << RequestLine(call.mode, call.db, call.ranges,
                   OptionString(call.arguments)),
       call.query,
       "//" >>

(* C8: a call that passes validation hands the socket the request line,    *)
(* then the query body, then the terminator "//", each once and in this    *)
(* order; a request is complete with the terminator; once the call is      *)
(* receiving, and after it has ended, it sends nothing more.               *)
C8_OneRequestInOrder ==
    [][ /\ callSends' # callSends
          => \/ CallStarts /\ callSends' = 0
             \/ /\ callSends' = callSends + 1
                /\ callSends' <= 3
                /\ pc = <<"SendLine", "SendQuery", "SendTerminator">>[callSends']
                /\ outbound' = Append(outbound, RequestChunks[callSends'])
        /\ nrequests' # nrequests
          => /\ nrequests' = nrequests + 1
             /\ callSends' = 3
             /\ pc' = "RecvStatus"
        /\ pc \in RecvPhases => callSends = 3 /\ callSends' = 3 ]_vars

(* C8 witness: a complete request on the wire, the call awaiting status *)
C8_Witness ==
    /\ pc = "RecvStatus"
    /\ callSends = 3
    /\ outbound = << "@--seqdb 1 --seqdb_ranges -5..107 \n", ">q\nMKV\n",
                     "//" >>

(* C9: a returned TopHits holds as many hit records as its hit count N,    *)
(* N is the nhits declared in the statistics block of the payload, and     *)
(* with nhits = 0 it is empty.                                             *)
C9_HitCount ==
    outcome.kind = "TopHits"
        => /\ Len(outcome.hits) = outcome.N
           /\ Len(rv.ret_buf) >= 2 => outcome.N = rv.ret_buf[2]
           /\ outcome.N = 0 => outcome.hits = << >>

(* C9 witness: two hit records declared, received and decoded *)
C9_Witness ==
    /\ outcome.kind = "TopHits"
    /\ ~outcome.garbage
    /\ outcome.N = 2
    /\ rv.ret_buf[2] = 2
    /\ Len(outcome.hits) = 2

RECURSIVE RecordsDecode(_, _, _)
(* n well formed hit records lie in buf from offset off *)
RecordsDecode(buf, off, n) ==
    \/ n = 0
    \/ /\ off + 1 <= Len(buf)
       /\ buf[off + 1] >= 1
       /\ off + buf[off + 1] <= Len(buf)
       /\ RecordsDecode(buf, off + buf[off + 1], n - 1)

(* the payload holds a statistics block and the records it declares, none  *)
(* of which a deserializer rejects                                         *)
DecodesCleanly(buf) ==
    /\ Len(buf) >= 2
    /\ buf[1] \in ValidSetby
    /\ 2 + buf[2] <= Len(buf)
    /\ RecordsDecode(buf, 2 + buf[2], buf[2])

(* C10: a transport failure, a close by the peer before all bytes of a     *)
(* message have arrived, or a failing deserializer ends the call with an   *)
(* error; a TopHits is returned only by a receive on a usable connection   *)
(* that completes the payload, and only if every deserializer accepted     *)
(* what it read.                                                           *)
C10_FailureReturnsNoResult ==
    [][ /\ (pc # "Idle" /\ ~Usable /\ outcome' # outcome)
          => outcome'.kind \in ErrorKinds
        /\ (pc \in RecvPhases /\ Usable /\ AtEOF /\ outcome' # outcome)
          => outcome'.kind \in ErrorKinds
        /\ (outcome'.kind = "TopHits" /\ outcome' # outcome)
          => /\ Usable
             /\ pc \in {"RecvStatus", "RecvPayload"}
             /\ rxbuf # << >>
             /\ Len(rv'.ret_taken) = rv'.ret_n
             /\ outcome'.garbage \/ DecodesCleanly(rv'.ret_buf) ]_vars

(* C10 witness: two hits declared, the first decoded, the second rejected  *)
(* by p7_hit_Deserialize: UnexpectedError and no TopHits                   *)
C10_Witness ==
    /\ outcome.kind = "UnexpectedError"
    /\ outcome.where = "p7_hit_Deserialize"
    /\ rv.ret_buf = <<0, 2, 0, 1, 1, 0>>
    /\ outcome.hits = << >>

RECURSIVE RecordOffsets(_, _, _, _)
(* the offsets, from `start`, at which n consecutive records begin *)
RecordOffsets(buf, off, n, start) ==
    IF n = 0 THEN << >>
    ELSE <<off - start>> \o RecordOffsets(buf, off + buf[off + 1], n - 1, start)

RECURSIVE Records(_, _, _)
(* n consecutive records from offset off *)
Records(buf, off, n) ==
    IF n = 0 THEN << >>
    ELSE <<SubSeq(buf, off + 1, off + buf[off + 1])>>
         \o Records(buf, off + buf[off + 1], n - 1)

(* the indices (0-based, ascending) of the records of a payload whose      *)
(* offset differs from their entry in the offset table                     *)
Mismatches(buf) ==
    LET n      == buf[2]
        actual == RecordOffsets(buf, 2 + n, n, 2 + n)
    IN  SelectSeq([i \in 1..n |-> i - 1],
                  LAMBDA i : actual[i + 1] # buf[2 + i + 1])

(* the last call received a payload and decoded it *)
PayloadDecoded ==
    /\ pc = "Idle"
    /\ rv.returned = 2
    /\ search_status.ret = eslOK
    /\ search_status.status = eslOK

(* C12: for a payload whose records all decode, a warning is emitted for   *)
(* exactly the records whose offset differs from its entry in the offset   *)
(* table; the records are decoded one after the other from the cursor,     *)
(* all nhits of them, and the TopHits is returned.                         *)
C12_OffsetMismatchWarns ==
    (PayloadDecoded /\ DecodesCleanly(rv.ret_buf))
        => /\ outcome.kind = "TopHits"
           /\ outcome.warnings = Mismatches(rv.ret_buf)
           /\ outcome.hits = Records(rv.ret_buf, 2 + rv.ret_buf[2],
                                     rv.ret_buf[2])
           /\ Len(outcome.hits) = rv.ret_buf[2]

(* C12 witness: two records of sizes 1 and 2 under an offset table of      *)
(* zeros: a warning for record 1 only, both records decoded                *)
C12_Witness ==
    /\ PayloadDecoded
    /\ rv.ret_buf = <<0, 2, 0, 0, 1, 2, 200>>
    /\ outcome.kind = "TopHits"
    /\ outcome.warnings = <<1>>
    /\ outcome.hits = << <<1>>, <<2, 200>> >>

(* C13: every TopHits returned is marked sorted by sort key and not sorted *)
(* by sequence index, for every payload and every nhits, 0 included.       *)
C13_SortFlags ==
    outcome.kind = "TopHits"
        => /\ outcome.is_sorted_by_sortkey = TRUE
           /\ outcome.is_sorted_by_seqidx = FALSE

(* C13 witness: the TopHits of a payload that declares no hit *)
C13_Witness ==
    /\ PayloadDecoded
    /\ rv.ret_buf = <<0, 0>>
    /\ outcome.kind = "TopHits"
    /\ outcome.N = 0
    /\ outcome.is_sorted_by_sortkey
    /\ ~outcome.is_sorted_by_seqidx

(* C14: close() called in any state of the session (never connected,       *)
(* connected, already closed) returns without raising, leaves the socket   *)
(* Closed and touches neither the running call nor its outcome; a socket   *)
(* that close() has been called on is Closed, after any number of calls.   *)
C14_CloseIdempotent ==
    [][ /\ nclose' # nclose
          => /\ nclose' = nclose + 1
             /\ sock' = "Closed"
             /\ pc' = pc
             /\ outcome' = outcome
        /\ nclose' >= 1 => sock' = "Closed" ]_vars

(* C14 witness: close() called twice on a client that never connected *)
C14_Witness ==
    /\ nclose = 2
    /\ sock = "Closed"
    /\ link = "none"
    /\ ncalls = 0
    /\ block.at = "outside"

(* C15: when the body of a `with` statement that __enter__ connected is    *)
(* left, normally or by an exception of a call made in it, the socket is   *)
(* Closed and that exception, if any, leaves the statement.                *)
C15_ScopedSessionCloses ==
    block.at = "left"
        => /\ sock = "Closed"
           /\ nclose >= 1
           /\ block.out = block.exc

(* C15 witness: the body left by the ServerError of its call; the socket   *)
(* is closed and the ServerError propagates                                *)
C15_Witness ==
    /\ block.at = "left"
    /\ block.exc = "ServerError"
    /\ block.out = "ServerError"
    /\ outcome.kind = "ServerError"
    /\ sock = "Closed"

(* the request line of the running call has just been sent *)
LineSent ==
    /\ pc = "SendQuery"
    /\ callSends = 1
    /\ outbound # << >>

(* the part of a request line between "<db> " and the options *)
RangesPart ==
    IF call.mode = p7_SEARCH_SEQS /\ ~call.ranges.isNone
    THEN "--seqdb_ranges " \o RangesClause(call.ranges.list) \o " "
    ELSE ""

(* the directive of a request line, by entry point *)
Directive ==
    IF call.entry = "scan_seq" THEN "@--hmmdb " ELSE "@--seqdb "

(* C16: the options of the request line are the tokens of the pipeline     *)
(* configuration joined by single spaces (so that splitting the line at    *)
(* spaces gives the tokens back).                                          *)
C16_OptionsSpaceJoined ==
    LineSent
        => outbound[Len(outbound)] =
             Directive \o Str(call.db) \o " " \o RangesPart
             \o Join(" ", call.arguments) \o "\n"

(* C17: exchanges on one connection are sequential.  While a call awaits   *)
(* the status header or the payload nothing is sent; the status header is  *)
(* awaited only once the request is complete, the payload or the error     *)
(* message only once the status header has been received; and a call       *)
(* finds nothing of an earlier response unread on the connection, so that  *)
(* the response it consumes is the one to its own request.  (The call      *)
(* after a rejected status header, whose message is left unread, is not    *)
(* counted.)                                                               *)
C17_SequentialExchanges ==
    [][ /\ pc \in RecvPhases
          => callSends' = callSends /\ nrequests' = nrequests
        /\ (pc' = "RecvStatus" /\ pc # "RecvStatus")
          => pc = "SendTerminator" /\ nrequests' = nrequests + 1
        /\ (pc' \in {"RecvError", "RecvPayload"} /\ pc' # pc)
          => /\ pc = "RecvStatus"
             /\ rv'.returned = rv.returned + 1
             /\ Len(rv'.ret_buf) = HMMD_SEARCH_STATUS_SERIAL_SIZE
        /\ (CallStarts /\ sock = "Connected" /\ link = "up"
             /\ outcome.where # "hmmd_search_status_Deserialize")
          => pending = << >> /\ rxbuf = << >> ]_vars

(* C18: the decoding of a payload of L bytes never moves the cursor past   *)
(* L: a payload whose statistics block or hit records need bytes beyond    *)
(* the L received makes the call fail with UnexpectedError, and a TopHits  *)
(* is returned with the cursor within the payload.                         *)
C18_CursorWithinPayload ==
    (/\ rv.returned = 2
     /\ pc \in {"Idle", "Dead"}
     /\ search_status.ret = eslOK
     /\ search_status.status = eslOK)
        => /\ outcome.kind \in {"TopHits", "UnexpectedError"}
           /\ outcome.kind = "TopHits" => outcome.cursor <= Len(rv.ret_buf)
           /\ ~DecodesCleanly(rv.ret_buf) => outcome.kind = "UnexpectedError"

SearchEntries == {"search_seq", "search_msa", "search_hmm"}

(* what can follow the directive and the ranges of a request line: the     *)
(* tokens of a configuration, joined in either way, and the newline        *)
OptionTexts ==
    { Join(sep, a) \o "\n" : sep \in {"", " "}, a \in ArgumentLists }

(* the request lines that begin with the given directive and database and  *)
(* carry the clause of the given ranges, or no clause for None             *)
LinesWith(directive, db, ranges) ==
    { directive \o Str(db) \o " "
      \o (IF ranges.isNone THEN ""
          ELSE "--seqdb_ranges " \o RangesClause(ranges.list) \o " ")
      \o rest : rest \in OptionTexts }

(* a call without ranges has been turned away by the check of `ranges`    *)
(* (see C2) before it could send                                           *)
TurnedAwayWithoutRanges ==
    /\ pc = "Idle"
    /\ call.entry # ""
    /\ call.ranges.isNone
    /\ outcome.kind = "TypeError"

(* C19: a request line sent by search_seq, search_msa or search_hmm begins *)
(* with "@--seqdb <db>" and carries a --seqdb_ranges clause exactly when   *)
(* the caller gave ranges; a request line sent by scan_seq begins with     *)
(* "@--hmmdb <db>" and carries no such clause.  For a call without ranges, *)
(* which the check of `ranges` turns away, the same is stated of the line  *)
(* that lines 211-219 build from its arguments.                            *)
C19_DirectiveByEntry ==
    /\ LineSent
          => outbound[Len(outbound)] \in
               (IF call.entry \in SearchEntries
                THEN LinesWith("@--seqdb ", call.db, call.ranges)
                ELSE LinesWith("@--hmmdb ", call.db, None))
    /\ TurnedAwayWithoutRanges
          => RequestLine(call.mode, call.db, call.ranges,
                         OptionString(call.arguments)) \in
               (IF call.entry \in SearchEntries
                THEN LinesWith("@--seqdb ", call.db, None)
                ELSE LinesWith("@--hmmdb ", call.db, None))

(* C19 witness: the line of a search_msa call with one range *)
C19_Witness ==
    /\ LineSent
    /\ call.entry = "search_msa"
    /\ call.db = 3
    /\ outbound = << "@--seqdb 3 --seqdb_ranges 10..20 --max--nobias\n" >>

(* C20: a call whose socket is closed by close() while the call is in the  *)
(* receive of the status header or of the payload ends with an error (an   *)
(* I/O error, by the claim) and returns no TopHits.  The socket of a call  *)
(* in a receive is Closed only if close() was called during that receive:  *)
(* a call does not get past a send on a closed socket.  (The outcomes of   *)
(* reads outside the buffer, see C18, are left aside.)                     *)
C20_CloseDuringReceive ==
    [][ (/\ pc \in {"RecvStatus", "RecvPayload"}
         /\ sock = "Closed"
         /\ outcome' # outcome
         /\ outcome'.kind # "Segfault"
         /\ ~outcome'.garbage)
        => outcome'.kind \in ErrorKinds ]_vars

(* C21: a closed socket stays closed, whatever is called afterwards; and a *)
(* search or scan call on a socket that is not connected (never connected, *)
(* or closed) fails: it is turned away by the check of `ranges` or its     *)
(* first send raises OSError, it sends nothing, nobody connects the socket *)
(* under it, and it returns no TopHits.                                    *)
C21_ClosedIsTerminal ==
    [][ /\ sock = "Closed" => sock' = "Closed"
        /\ (CallStarts /\ sock # "Connected")
          => \/ outcome'.kind \in ValidationErrors /\ pc' = "Idle"
             \/ outcome'.kind = "none" /\ pc' = "SendLine"
        /\ (pc = "SendLine" /\ sock # "Connected")
          => /\ sock' # "Connected"
             /\ callSends' = 0
             /\ \/ pc' = "SendLine" /\ outcome' = outcome
                \/ pc' = "Idle" /\ outcome'.kind = "OSError" ]_vars

(* C21 witness: after close(), with no request ever sent, the second call  *)
(* has failed at its first send                                            *)
C21_Witness ==
    /\ sock = "Closed"
    /\ nclose = 1
    /\ ncalls = 2
    /\ nrequests = 0
    /\ pc = "Idle"
    /\ outcome.kind = "OSError"
    /\ outcome.where = "SendLine"
    /\ callSends = 0

(* a receive of _recvall that returns bytes *)
ReceiveReturnsBytes ==
    /\ pc \in {"RecvStatus", "RecvPayload"}
    /\ rxbuf # << >>
    /\ \/ rv'.nrecv = rv.nrecv + 1
       \/ rv'.returned > rv.returned

(* C22: _recvall(n) takes at most n bytes off the stream: every receive    *)
(* takes at least one byte and at most the n - received bytes still        *)
(* missing, and leaves the bytes after them on the transport; a receive    *)
(* either raises `received` by what it took or ends the loop; the loop     *)
(* makes at most n receives, and none when n = 0.                          *)
C22_RecvallExact ==
    [][ /\ Len(rv'.taken) <= rv'.n
        /\ rv'.nrecv <= rv'.n
        /\ rv'.returned > rv.returned
          => /\ Len(rv'.ret_taken) = rv'.ret_n
             /\ Len(rv'.ret_buf) = rv'.ret_n
             /\ rv'.ret_nrecv <= rv'.ret_n
        /\ (ReceiveReturnsBytes /\ ~inflight)
          => LET k == Len(rxbuf) - Len(rxbuf')
             IN  /\ 1 <= k
                 /\ k <= message_size - received
                 /\ rxbuf' = SubSeq(rxbuf, k + 1, Len(rxbuf))
                 /\ \/ received' = received + k /\ received' < message_size
                    \/ rv'.returned > rv.returned /\ received + k = message_size
      ]_vars

(* C22 witness: the status header has come back complete after two short   *)
(* reads, everything the server sent has arrived, and the bytes after the  *)
(* header are still unread                                                 *)
C22_Witness ==
    /\ pc = "RecvPayload"
    /\ rv.returned = 1
    /\ rv.ret_nrecv = 2
    /\ Len(rv.ret_taken) = rv.ret_n
    /\ received = 0
    /\ pending = << >>
    /\ Len(rxbuf) = message_size
    /\ ~inflight

====
